---- MODULE Spec2Model ----
(***************************************************************************)
(* Steady-state genetic algorithm for the TSP (src/src/genetic.py) seeded  *)
(* by the greedy nearest-neighbour constructor (src/src/greedy.py).        *)
(*                                                                         *)
(* Python lists are objects: a tour is a reference into the store `tours`, *)
(* and sim() writes through the reference.  Indices are 0-based in the     *)
(* source; At(seq, i) reads the element the source calls seq[i].           *)
(***************************************************************************)
EXTENDS Integers, Sequences, FiniteSets, Bags, TLC

VARIABLES
    graph,          \* the Graph argument: [n |-> number of nodes, kind |-> distance table]
    size,           \* the population size handed to generate_population
    pc,             \* position of the run inside genetic()/generate_population()
    iter,           \* number of generations the for loop of genetic() has started
    which,          \* 1 while child1 is being produced, 2 for child2, 0 outside
    tours,          \* the list objects: reference -> contents (<<>>: no object)
    population,     \* list of items [fit, tour], tour a reference
    initial_tour,   \* generate_population's local initial_tour (reference, 0: unset)
    parent1,        \* reference, 0: unset
    parent2,        \* reference, 0: unset
    child,          \* reference of mutated_tour / child1 / child2, 0: unset
    swath,          \* the slice held by _get_valid_swath: <<start, stop>>
    seq_length,     \* the argument of _get_valid_swath (0 outside it)
    spc,            \* position inside _get_valid_swath
    best_tour,      \* the list genetic() returns (<<>> before it returns)
    seed_fitness    \* history: fitness of the greedy item appended at line 142

vars == <<graph, size, pc, iter, which, tours, population, initial_tour,
          parent1, parent2, child, swath, seq_length, spc, best_tour, seed_fitness>>

\* ---- bounds of the model ----
MaxNodes == 4
MaxSize == 3
\* MAX_ITERATIONS is 50000 in the source; the model runs this many generations.
MAX_ITERATIONS == 1

Kinds == {"line", "prod"}
Refs == 1..(MaxSize + 2)
NoSwath == <<0, 0>>

\* ---- the Graph collaborator ----
Nodes(g) == 1..g.n

Abs(x) == IF x < 0 THEN -x ELSE x

\* graph.distance(a, b): symmetric and non-negative.
Distance(g, a, b) ==
    IF a = b THEN 0
    ELSE IF g.kind = "line" THEN Abs(a - b)
    ELSE a * b

At(seq, i) == seq[i + 1]

IsPermutation(seq, g) ==
    /\ Len(seq) = g.n
    /\ \A v \in Nodes(g) : Cardinality({i \in 1..Len(seq) : seq[i] = v}) = 1

\* Every list holding each of the nodes 1..n once.
AllTours(n) ==
    {p \in [1..n -> 1..n] : \A i, j \in 1..n : p[i] = p[j] => i = j}

\* ---- greedy.py ----
\* The candidates min() can return at line 32: the available nodes nearest to
\* prev_node (which of several nearest ones comes first in the set's iteration
\* order is not fixed).
Nearest(g, prev_node, available_nodes) ==
    {c \in available_nodes :
        \A x \in available_nodes : Distance(g, prev_node, c) <= Distance(g, prev_node, x)}

RECURSIVE GreedyLoop(_, _, _)
\* The while loop of greedy(): every tour it can complete from `tour`.
GreedyLoop(g, tour, available_nodes) ==
    IF available_nodes = {} THEN {tour}
    ELSE UNION {GreedyLoop(g, Append(tour, next_node), available_nodes \ {next_node}) :
                    next_node \in Nearest(g, tour[Len(tour)], available_nodes)}

\* greedy(graph): set.pop() takes an arbitrary start node (KeyError on an
\* empty set: no tour).
greedy(g) ==
    UNION {GreedyLoop(g, <<prev_node>>, Nodes(g) \ {prev_node}) : prev_node \in Nodes(g)}

\* ---- fitness ----
RECURSIVE PathLength(_, _, _)
PathLength(g, tour, i) ==
    IF i >= Len(tour) THEN 0
    ELSE Distance(g, tour[i], tour[i + 1]) + PathLength(g, tour, i + 1)

\* tour_length(tour, graph): length of the closed tour.
tour_length(tour, g) ==
    IF Len(tour) = 0 THEN 0
    ELSE PathLength(g, tour, 1) + Distance(g, tour[Len(tour)], tour[1])

get_fitness(tour, g) == -1 * tour_length(tour, g)

\* ---- swath selection ----
\* _random_slice(seq_length): two distinct cut points of 0..seq_length, ordered.
random_slice(length) ==
    {cut_points \in (0..length) \X (0..length) : cut_points[1] < cut_points[2]}

SwathLen(s) == s[2] - s[1]

\* The comparison of line 293 turned around: every slice counts as too short.
TooShortInverted(s) == SwathLen(s) >= 1

\* Line 293: the condition of the first while loop of _get_valid_swath.
TooShort(s) == SwathLen(s) <= 1

\* Line 297: the condition of its second while loop.
CoversAll(s, length) == s[1] = 0 /\ s[2] = length

\* ---- ox1 ----
SwathValues(seq, s) == {seq[i] : i \in (s[1] + 1)..s[2]}

\* Line 246 written with the source's offset instead of the target's.
IdxTargetBySource(target_offset, source_offset, start_point, source_length) ==
    (source_offset + start_point) % source_length

\* Line 246: the slot of the target the next accepted value is written to.
IdxTarget(target_offset, source_offset, start_point, source_length) ==
    (target_offset + start_point) % source_length

RECURSIVE FillLoop(_, _, _, _, _, _)
\* The for loop of _fill_missing_genes from source_offset on.
FillLoop(source, target, already_filled_values, start_point, source_offset, target_offset) ==
    IF source_offset >= Len(source) THEN target
    ELSE LET idx_source == (source_offset + start_point) % Len(source)
             next_val == At(source, idx_source)
         IN IF next_val \notin already_filled_values
            THEN LET idx_target == IdxTarget(target_offset, source_offset,
                                             start_point, Len(source))
                 IN FillLoop(source, [target EXCEPT ![idx_target + 1] = next_val],
                             already_filled_values, start_point,
                             source_offset + 1, target_offset + 1)
            ELSE FillLoop(source, target, already_filled_values, start_point,
                          source_offset + 1, target_offset)

\* Line 232 taking the slice's start instead of its stop.
fill_missing_genes_from_start(prefilled_slice, source, target) ==
    FillLoop(source, target, SwathValues(target, prefilled_slice),
             prefilled_slice[1], 0, 0)

\* _fill_missing_genes(prefilled_slice, source, target): the target afterwards.
fill_missing_genes(prefilled_slice, source, target) ==
    FillLoop(source, target, SwathValues(target, prefilled_slice),
             prefilled_slice[2], 0, 0)

\* ox1(main_seq, secondary_seq) once the swath is chosen; 0 stands for None.
ox1(main_seq, secondary_seq, s) ==
    LET blank == [i \in 1..Len(main_seq) |-> 0]
        copied == [i \in 1..Len(main_seq) |->
                      IF s[1] < i /\ i <= s[2] THEN main_seq[i] ELSE blank[i]]
    IN fill_missing_genes(s, secondary_seq, copied)

\* ---- sim ----
\* seq[swath] = reversed(seq[swath])
sim(seq, s) ==
    [i \in 1..Len(seq) |->
        IF s[1] < i /\ i <= s[2] THEN seq[s[1] + s[2] + 1 - i] ELSE seq[i]]

\* ---- heapq on items (fitness, tour) ----
RECURSIVE SeqLess(_, _, _)
\* Python's list < list from index i on: the first differing element decides.
SeqLess(s, t, i) ==
    IF i > Len(s) \/ i > Len(t) THEN Len(s) < Len(t)
    ELSE IF s[i] # t[i] THEN s[i] < t[i]
    ELSE SeqLess(s, t, i + 1)

\* Python's tuple < tuple on (fitness, tour): the tour lists are compared by
\* their contents when the fitnesses are equal.
ItemLess(a, b) ==
    \/ a.fit < b.fit
    \/ a.fit = b.fit /\ SeqLess(tours[a.tour], tours[b.tour], 1)

RECURSIVE SiftDown(_, _, _, _)
\* heapq._siftdown(heap, startpos, pos) with newitem taken out of heap[pos].
SiftDown(heap, startpos, pos, newitem) ==
    IF pos > startpos
    THEN LET parentpos == (pos - 1) \div 2
             parent == At(heap, parentpos)
         IN IF ItemLess(newitem, parent)
            THEN SiftDown([heap EXCEPT ![pos + 1] = parent], startpos, parentpos, newitem)
            ELSE [heap EXCEPT ![pos + 1] = newitem]
    ELSE [heap EXCEPT ![pos + 1] = newitem]

RECURSIVE SiftUpLoop(_, _, _)
\* heapq._siftup(heap, 0) from pos on: bubble the smaller child up until a leaf
\* is hit, put newitem there and sift it down.
SiftUpLoop(heap, pos, newitem) ==
    LET endpos == Len(heap)
        leftpos == 2 * pos + 1
        rightpos == leftpos + 1
        childpos == IF rightpos < endpos /\ ~ItemLess(At(heap, leftpos), At(heap, rightpos))
                    THEN rightpos ELSE leftpos
    IN IF leftpos < endpos
       THEN SiftUpLoop([heap EXCEPT ![pos + 1] = At(heap, childpos)], childpos, newitem)
       ELSE SiftDown(heap, 0, pos, newitem)

\* heapq.heappushpop(heap, item): the list afterwards.
heappushpop(heap, item) ==
    IF Len(heap) > 0 /\ ItemLess(heap[1], item)
    THEN SiftUpLoop([heap EXCEPT ![1] = item], 0, item)
    ELSE heap

\* Line 115 with >= for >.
update_population_ge(item, pop) ==
    IF item.fit >= pop[1].fit THEN heappushpop(pop, item) ELSE pop

\* The list update_population(item, population) leaves behind.
update_population(item, pop) ==
    IF item.fit > pop[1].fit THEN heappushpop(pop, item) ELSE pop

\* ---- tournament selection ----
\* Line 189 drawing with replacement (random.choices): the same member twice,
\* and no error on a single member.
sample2_with_replacement(pop) ==
    {<<pop[q[1]], pop[q[2]]>> : q \in (1..Len(pop)) \X (1..Len(pop))}

\* sample(population, 2): two members at distinct positions, in either order.
\* The empty set stands for the ValueError sample() raises when the population
\* holds fewer than two members.
sample2(pop) ==
    {<<pop[q[1]], pop[q[2]]>> :
        q \in {q \in (1..Len(pop)) \X (1..Len(pop)) : q[1] # q[2]}}

\* max(chosen_items, key=itemgetter(0)): the first of the two unless the second
\* is strictly fitter; _tournament_selection returns its tour.
tournament_selection(chosen_items) ==
    IF chosen_items[2].fit > chosen_items[1].fit
    THEN chosen_items[2].tour ELSE chosen_items[1].tour

\* ---- final extraction ----
\* Line 89 taking the heap's root for the best member.
best_is_root(pop) == pop[1]

\* max(population, key=itemgetter(0)): the first member of maximal fitness.
best(pop) ==
    LET i == CHOOSE i \in 1..Len(pop) :
                 /\ \A j \in 1..Len(pop) : pop[j].fit <= pop[i].fit
                 /\ \A j \in 1..(i - 1) : pop[j].fit < pop[i].fit
    IN pop[i]

\* ---- the list objects ----
\* The first reference that names no object.
NewRef == CHOOSE r \in Refs : tours[r] = <<>> /\ \A q \in 1..(r - 1) : tours[q] # <<>>

PopRefs(pop) == {pop[i].tour : i \in 1..Len(pop)}

\* Objects no name reaches any more are collected.
Collect(ts, live) == [r \in Refs |-> IF r \in live THEN ts[r] ELSE <<>>]

Item(r) == [fit |-> get_fitness(tours[r], graph), tour |-> r]

\* ---- initial states ----
Init ==
    /\ graph \in [n : 0..MaxNodes, kind : Kinds]
    /\ size \in 0..MaxSize
    /\ pc = "greedy"
    /\ iter = 0
    /\ which = 0
    /\ tours = [r \in Refs |-> <<>>]
    /\ population = <<>>
    /\ initial_tour = 0
    /\ parent1 = 0
    /\ parent2 = 0
    /\ child = 0
    /\ swath = NoSwath
    /\ seq_length = 0
    /\ spc = "idle"
    /\ best_tour = <<>>
    /\ seed_fitness = 0

\* ---- _get_valid_swath ----
\* Lines 288-290: the precondition and the first draw; `next` is where the
\* caller waits for the slice.  A failed assertion ends the run.
get_valid_swath(length, next) ==
    IF length > 2
    THEN /\ seq_length' = length
         /\ swath' \in random_slice(length)
         /\ spc' = "loop1"
         /\ pc' = next
    ELSE /\ pc' = "error"
         /\ UNCHANGED <<seq_length, swath, spc>>

\* Line 293-294: the swath holds at most one member, draw again.
Loop1Resample ==
    /\ spc = "loop1"
    /\ TooShort(swath)
    /\ swath' \in random_slice(seq_length)
    /\ UNCHANGED <<graph, size, pc, iter, which, tours, population, initial_tour,
                   parent1, parent2, child, seq_length, spc, best_tour, seed_fitness>>

\* Line 293: the first loop is left.
Loop1Exit ==
    /\ spc = "loop1"
    /\ ~TooShort(swath)
    /\ spc' = "loop2"
    /\ UNCHANGED <<graph, size, pc, iter, which, tours, population, initial_tour,
                   parent1, parent2, child, swath, seq_length, best_tour, seed_fitness>>

\* Lines 297-298: the swath covers the full sequence, draw again.
Loop2Resample ==
    /\ spc = "loop2"
    /\ CoversAll(swath, seq_length)
    /\ swath' \in random_slice(seq_length)
    /\ UNCHANGED <<graph, size, pc, iter, which, tours, population, initial_tour,
                   parent1, parent2, child, seq_length, spc, best_tour, seed_fitness>>

\* Lines 297, 300: the second loop is left and the swath returned.
Loop2Exit ==
    /\ spc = "loop2"
    /\ ~CoversAll(swath, seq_length)
    /\ spc' = "ret"
    /\ UNCHANGED <<graph, size, pc, iter, which, tours, population, initial_tour,
                   parent1, parent2, child, swath, seq_length, best_tour, seed_fitness>>

\* ---- generate_population ----
\* Lines 137-142 with greedy(): the greedy tour becomes the first member.
\* greedy() raises KeyError on a graph without nodes.
Greedy ==
    /\ pc = "greedy"
    /\ IF graph.n = 0
       THEN /\ pc' = "error"
            /\ UNCHANGED <<tours, population, initial_tour, seed_fitness>>
       ELSE \E t \in greedy(graph) :
            /\ tours' = [tours EXCEPT ![1] = t]
            /\ initial_tour' = 1
            /\ population' = <<[fit |-> get_fitness(t, graph), tour |-> 1]>>
            /\ seed_fitness' = get_fitness(t, graph)
            /\ pc' = "seed_loop"
    /\ UNCHANGED <<graph, size, iter, which, parent1, parent2, child, swath,
                   seq_length, spc, best_tour>>

\* Line 146 without the copy: mutated_tour = initial_tour, the same list.
SeedAlias ==
    /\ child' = initial_tour
    /\ tours' = tours

\* Line 146: mutated_tour = initial_tour[:], a new list.
SeedCopy ==
    /\ child' = NewRef
    /\ tours' = [tours EXCEPT ![NewRef] = tours[initial_tour]]

\* Lines 145-147: one more member is wanted: copy the greedy tour and enter
\* sim() (its assertion, then _get_valid_swath).
SeedMutate ==
    /\ pc = "seed_loop"
    /\ Len(population) < size
    /\ SeedCopy
    /\ get_valid_swath(Len(tours[initial_tour]), "seed_sim")
    /\ UNCHANGED <<graph, size, iter, which, population, initial_tour,
                   parent1, parent2, best_tour, seed_fitness>>

\* Lines 147-150: sim() reverses the swath in place; the mutated tour is scored
\* and appended.
SeedAppend ==
    /\ pc = "seed_sim"
    /\ spc = "ret"
    /\ tours' = [tours EXCEPT ![child] = sim(tours[child], swath)]
    /\ population' = Append(population,
                            [fit |-> get_fitness(tours'[child], graph), tour |-> child])
    /\ child' = 0
    /\ swath' = NoSwath
    /\ seq_length' = 0
    /\ spc' = "idle"
    /\ pc' = "seed_loop"
    /\ UNCHANGED <<graph, size, iter, which, initial_tour, parent1, parent2,
                   best_tour, seed_fitness>>

\* Line 152: range(size - 1) is exhausted, the population is returned.
SeedReturn ==
    /\ pc = "seed_loop"
    /\ ~(Len(population) < size)
    /\ initial_tour' = 0
    /\ pc' = "for"
    /\ UNCHANGED <<graph, size, iter, which, tours, population, parent1, parent2,
                   child, swath, seq_length, spc, best_tour, seed_fitness>>

\* ---- genetic ----
\* Line 40: the for loop starts its next generation.
ForNext ==
    /\ pc = "for"
    /\ iter < MAX_ITERATIONS
    /\ iter' = iter + 1
    /\ pc' = "select"
    /\ UNCHANGED <<graph, size, which, tours, population, initial_tour, parent1,
                   parent2, child, swath, seq_length, spc, best_tour, seed_fitness>>

\* Lines 89-91: the loop is over, the best tour is returned.
Finalize ==
    /\ pc = "for"
    /\ ~(iter < MAX_ITERATIONS)
    /\ best_tour' = tours[best(population).tour]
    /\ pc' = "done"
    /\ UNCHANGED <<graph, size, iter, which, tours, population, initial_tour,
                   parent1, parent2, child, swath, seq_length, spc, seed_fitness>>

\* Line 48: two tournaments (lines 172-173, 189-195).
Select ==
    /\ pc = "select"
    /\ IF sample2(population) = {}
       THEN /\ pc' = "error"
            /\ UNCHANGED <<parent1, parent2, which>>
       ELSE \E c1 \in sample2(population), c2 \in sample2(population) :
            /\ parent1' = tournament_selection(c1)
            /\ parent2' = tournament_selection(c2)
            /\ which' = 1
            /\ pc' = "ox1"
    /\ UNCHANGED <<graph, size, iter, tours, population, initial_tour, child,
                   swath, seq_length, spc, best_tour, seed_fitness>>

\* ox1(parent1, parent2) for child1, ox1(parent2, parent1) for child2.
MainSeq == IF which = 1 THEN parent1 ELSE parent2
SecondarySeq == IF which = 1 THEN parent2 ELSE parent1

\* Lines 52/63, 213-217: ox1 is entered and asks for a swath.
Ox1Call ==
    /\ pc = "ox1"
    /\ spc = "idle"
    /\ IF Len(tours[MainSeq]) = Len(tours[SecondarySeq])
       THEN get_valid_swath(Len(tours[MainSeq]), "ox1")
       ELSE /\ pc' = "error"
            /\ UNCHANGED <<seq_length, swath, spc>>
    /\ UNCHANGED <<graph, size, iter, which, tours, population, initial_tour,
                   parent1, parent2, child, best_tour, seed_fitness>>

\* Lines 216-225: the child is built in a new list.
Ox1Return ==
    /\ pc = "ox1"
    /\ spc = "ret"
    /\ child' = NewRef
    /\ tours' = [tours EXCEPT ![NewRef] = ox1(tours[MainSeq], tours[SecondarySeq], swath)]
    /\ swath' = NoSwath
    /\ spc' = "idle"
    /\ seq_length' = 0
    /\ pc' = "mutate"
    /\ UNCHANGED <<graph, size, iter, which, population, initial_tour, parent1,
                   parent2, best_tour, seed_fitness>>

\* Lines 55/64: random() > MUTATION_PROBA, the child is not mutated.
MutateSkip ==
    /\ pc = "mutate"
    /\ pc' = "update"
    /\ UNCHANGED <<graph, size, iter, which, tours, population, initial_tour, parent1,
                   parent2, child, swath, seq_length, spc, best_tour, seed_fitness>>

\* Lines 55-56/64: random() <= MUTATION_PROBA, sim(child) is entered.
MutateSim ==
    /\ pc = "mutate"
    /\ get_valid_swath(Len(tours[child]), "sim")
    /\ UNCHANGED <<graph, size, iter, which, tours, population, initial_tour,
                   parent1, parent2, child, best_tour, seed_fitness>>

\* Line 276: sim reverses the swath of the child in place.
SimReturn ==
    /\ pc = "sim"
    /\ spc = "ret"
    /\ tours' = [tours EXCEPT ![child] = sim(tours[child], swath)]
    /\ swath' = NoSwath
    /\ seq_length' = 0
    /\ spc' = "idle"
    /\ pc' = "update"
    /\ UNCHANGED <<graph, size, iter, which, population, initial_tour, parent1,
                   parent2, child, best_tour, seed_fitness>>

\* Lines 59-60 (child1) and 66-67 (child2): the child is scored and offered to
\* the population.  After child2 the generation is over.
Update ==
    /\ pc = "update"
    /\ population' = update_population(Item(child), population)
    /\ child' = 0
    /\ IF which = 1
       THEN /\ which' = 2
            /\ pc' = "ox1"
            /\ tours' = Collect(tours, PopRefs(population') \cup {parent1, parent2})
            /\ UNCHANGED <<parent1, parent2>>
       ELSE /\ which' = 0
            /\ pc' = "for"
            /\ parent1' = 0
            /\ parent2' = 0
            /\ tours' = Collect(tours, PopRefs(population'))
    /\ UNCHANGED <<graph, size, iter, initial_tour, swath, seq_length, spc,
                   best_tour, seed_fitness>>

Next ==
    \/ Greedy
    \/ SeedMutate
    \/ SeedAppend
    \/ SeedReturn
    \/ ForNext
    \/ Finalize
    \/ Select
    \/ Ox1Call
    \/ Ox1Return
    \/ MutateSkip
    \/ MutateSim
    \/ SimReturn
    \/ Update
    \/ Loop1Resample
    \/ Loop1Exit
    \/ Loop2Resample
    \/ Loop2Exit

Spec == Init /\ [][Next]_vars

\* random() and sample() draw every outcome again and again: a draw that ends a
\* resampling loop is not refused forever.
\* The behaviour graph of every configuration is too large for the liveness
\* check; it runs on the "line" graphs and, on the others, on populations of at
\* most two members.
LiveInit == Init /\ (graph.kind = "line" \/ size <= 2)

LiveSpec ==
    /\ LiveInit
    /\ [][Next]_vars
    /\ WF_vars(Next)
    /\ WF_vars(Loop1Resample /\ ~TooShort(swath'))
    /\ WF_vars(Loop2Resample /\ ~CoversAll(swath', seq_length))

\* ---- ox1 on its own: every pair of parents ----
OxInit ==
    /\ graph \in [n : 3..MaxNodes, kind : {"line"}]
    /\ size = 2
    /\ pc = "ox1"
    /\ iter = 1
    /\ which = 1
    /\ \E primary \in AllTours(graph.n), secondary \in AllTours(graph.n) :
        /\ tours = [r \in Refs |-> IF r = 1 THEN primary
                                   ELSE IF r = 2 THEN secondary ELSE <<>>]
        /\ population = <<[fit |-> get_fitness(primary, graph), tour |-> 1],
                          [fit |-> get_fitness(secondary, graph), tour |-> 2]>>
    /\ initial_tour = 0
    /\ parent1 = 1
    /\ parent2 = 2
    /\ child = 0
    /\ swath = NoSwath
    /\ seq_length = 0
    /\ spc = "idle"
    /\ best_tour = <<>>
    /\ seed_fitness = 0

OxNext ==
    \/ Ox1Call
    \/ Loop1Resample
    \/ Loop1Exit
    \/ Loop2Resample
    \/ Loop2Exit
    \/ Ox1Return

OxSpec == OxInit /\ [][OxNext]_vars

\* ---- properties ----
ValidConfig == graph.n >= 3 /\ size >= 2
InvalidConfig == size < 2 \/ graph.n < 3

Seeded == pc \in {"for", "select", "ox1", "mutate", "sim", "update", "done"}

MaxFit(pop) ==
    CHOOSE f \in {pop[i].fit : i \in 1..Len(pop)} : \A i \in 1..Len(pop) : pop[i].fit <= f

Occurrences(pop, x) == Cardinality({i \in 1..Len(pop) : pop[i] = x})

Members(pop) == {pop[i] : i \in 1..Len(pop)}

\* A member was replaced: the population no longer holds exactly the lists
\* generate_population created.
Replaced == PopRefs(population) # 1..Len(population)

\* C1: on a graph of at least 3 nodes every list that exists (the greedy tour,
\* every ox1 child before and after sim, every population member's tour, the
\* parents) and the returned tour has length N and holds every node once.
PermutationInvariant ==
    graph.n >= 3 =>
        /\ \A r \in Refs : tours[r] # <<>> => IsPermutation(tours[r], graph)
        /\ \A i \in 1..Len(population) : tours[population[i].tour] # <<>>
        /\ child # 0 => tours[child] # <<>>
        /\ best_tour # <<>> => IsPermutation(best_tour, graph)

\* C1 witness: child2, about to be offered, differs from both of its parents.
PermutationWitness ==
    /\ graph.n = MaxNodes
    /\ pc = "update"
    /\ which = 2
    /\ tours[child] # tours[parent1]
    /\ tours[child] # tours[parent2]

\* C2: the slice _get_valid_swath returns satisfies 0 <= start < stop <=
\* seq_length, holds at least 2 elements and at most seq_length - 1.
SwathBounds ==
    spc = "ret" =>
        /\ 0 <= swath[1] /\ swath[1] < swath[2] /\ swath[2] <= seq_length
        /\ SwathLen(swath) >= 2
        /\ SwathLen(swath) <= seq_length - 1

\* C3: from the return of generate_population on, population[0] has a fitness
\* less than or equal to that of every other member.
HeapRootIsWorst ==
    Seeded => \A i \in 1..Len(population) : population[1].fit <= population[i].fit

\* C4: the fitness of population[0] after an update_population call is greater
\* than or equal to its fitness before the call.
WorstNonWorsening ==
    [][pc = "update" => population'[1].fit >= population[1].fit]_vars

ImproveOrDiscard ==
    [][pc = "update" =>
        LET item == Item(child)
        IN /\ Len(population') = Len(population)
           /\ \/ population' = population
              \/ \E i \in 1..Len(population) :
                    /\ population[i].fit < item.fit
                    /\ \A x \in Members(population) \cup Members(population') \cup {item} :
                          Occurrences(population', x) =
                              Occurrences(population, x)
                              - (IF x = population[i] THEN 1 ELSE 0)
                              + (IF x = item THEN 1 ELSE 0)]_vars

\* C7 witness: a generation is over and a child has taken a member's place.
ReplacedWitness ==
    /\ pc = "for"
    /\ iter >= 1
    /\ Replaced

\* How the non-swath positions of seq read cyclically from index stop.
CyclicFrom(seq, k) == [i \in 1..Len(seq) |-> At(seq, (k + i - 1) % Len(seq))]

Ox1Matches(primary, secondary, s, result) ==
    LET Kept(v) == v \notin SwathValues(primary, s)
        rest == Len(primary) - SwathLen(s)
    IN /\ Len(result) = Len(primary)
       /\ \A i \in (s[1] + 1)..s[2] : result[i] = primary[i]
       /\ SubSeq(CyclicFrom(result, s[2]), 1, rest)
              = SelectSeq(CyclicFrom(secondary, s[2]), Kept)

\* C8: the child ox1 returns equals primary on the swath, and its other
\* positions, read cyclically from index stop, hold the values of secondary
\* outside the swath in their cyclic order in secondary from index stop.
Ox1Reference ==
    [][(pc = "ox1" /\ spc = "ret") =>
          Ox1Matches(tours[MainSeq], tours[SecondarySeq], swath, tours'[child'])]_vars

\* C8 witness: ox1 has returned a child that is neither parent.
Ox1Witness ==
    /\ pc = "mutate"
    /\ child # 0
    /\ tours[child] # tours[parent1]
    /\ tours[child] # tours[parent2]

\* C9: every member's stored fitness is -1 times the closed length of its
\* stored tour; the list sim works on is no member's and no parent's list; and
\* ox1 and sim leave the lists of members and parents as they are.
FitnessConsistency ==
    /\ [](\A i \in 1..Len(population) :
            population[i].fit = -1 * tour_length(tours[population[i].tour], graph))
    /\ [](child # 0 => child \notin PopRefs(population) \cup {parent1, parent2})
    /\ [][(pc \in {"seed_sim", "ox1", "sim"} /\ spc = "ret") =>
            \A r \in (PopRefs(population) \cup {parent1, parent2}) \ {0} :
                tours'[r] = tours[r]]_vars

\* C9 witness: a mutated copy of the greedy tour that differs from it is in
\* the population.
MutatedCopyWitness ==
    /\ pc = "seed_loop"
    /\ Len(population) >= 2
    /\ tours[population[2].tour] # tours[population[1].tour]

\* C10: the maximum fitness in the population never decreases, and the tour
\* genetic() returns is not longer than the greedy seed tour.
Elitism ==
    /\ [][population # <<>> => MaxFit(population') >= MaxFit(population)]_vars
    /\ [](pc = "done" => tour_length(best_tour, graph) <= -1 * seed_fitness)

\* C10 witness: after a replacement the returned tour is shorter than the
\* greedy seed tour.
ElitismWitness ==
    /\ pc = "done"
    /\ Replaced
    /\ tour_length(best_tour, graph) < -1 * seed_fitness

====
